---- MODULE Spec2Model ----
(***************************************************************************)
(* xinput2-for-games: keyboards (and mice) of one X display are split      *)
(* among several players by creating XInput2 master pairs and reattaching  *)
(* the slave devices the players signal with.                              *)
(*                                                                         *)
(* Device names are modelled as sequences of words: the device the server  *)
(* calls "Player2 XTEST keyboard" is <<"Player2", "XTEST", "keyboard">>.   *)
(* f"{name} keyboard" appends a word, name[:-8] with endswith(' pointer')  *)
(* drops the last word, and 'XTEST' in name looks for the word.            *)
(***************************************************************************)
EXTENDS Integers, Sequences, FiniteSets, TLC

VARIABLES
    devices,             \* the server's device list (xinput_query_device)
    spare,               \* physical keyboards not plugged in yet
    fe,                  \* front end driving the session: "cli", "gtk", "kodi"
    pc,                  \* position of the session's flow of control
    names,               \* player list of the session
    detect_mice,         \* mouse detection requested
    cur,                 \* position (1-based) of the player being prompted
    player_keyboards,    \* claim map: dict, as a sequence of <<name, id>> items
    player_mice,         \* claim map for pointers
    already_assigned,    \* the "seen" set the current prompt checks against
    slave_keyboard_ids,  \* acceptable ids handed to wait_for_enter_key
    slave_pointer_ids,   \* acceptable ids handed to wait_for_mouse_click
    canceled,            \* Kodi: progress.iscanceled() or monitor.abortRequested()
    out,                 \* what the last step told the user
    ret,                 \* last value a watcher returned to the session
    tick,                \* flips each time a watcher returns to the session
    cmds,                \* external xinput commands issued since the session began
    todo,                \* cleanup_extra_masters: pairs still to be looked at
    idx,                 \* setup_players: position in the loop being run
    rtodo,               \* reset (cleanup with an empty keep list): pairs left
    rcmds,               \* external xinput commands the running or last reset issued
    ractive,             \* a reset handler is running
    last_ok_names,       \* player list of the last setup_players that returned
    started,             \* sessions begun so far
    handshake,           \* xinput_query_version of the running front end: "ok", "failed"
    waiting,             \* GTK: background threads blocked in a core watcher
    argv,                \* main(): the parsed arguments, <<>> when main() was not run
    w_pc,                \* watcher under test: "waiting" or "returned"
    w_kind,              \* watcher under test: "key" or "button"
    w_ids,               \* watcher under test: acceptable ids
    w_ev,                \* watcher under test: last event consumed
    w_ret,               \* watcher under test: value returned
    w_mask,              \* watcher under test: raw events selected on the root window
    w_canceled           \* cancellable watcher under test: what is_canceled() gives

session_vars == <<fe, pc, names, detect_mice, cur, player_keyboards, player_mice,
                  already_assigned, slave_keyboard_ids, slave_pointer_ids, canceled,
                  out, ret, tick, cmds, todo, idx, rtodo, rcmds, ractive, last_ok_names, started,
                  handshake, argv, waiting>>
server_vars == <<devices, spare>>
watch_vars == <<w_pc, w_kind, w_ids, w_ev, w_ret, w_mask, w_canceled>>
vars == <<server_vars, session_vars, watch_vars>>

(***************************************************************************)
(* Program constants                                                       *)
(***************************************************************************)
MASTER_POINTER == 1
MASTER_KEYBOARD == 2
SLAVE_POINTER == 3
SLAVE_KEYBOARD == 4
FLOATING_SLAVE == 5
VIRTUAL_CORE_POINTER == 2
VIRTUAL_CORE_KEYBOARD == 3
ENTER_KEYCODE == 36

(***************************************************************************)
(* Bounds                                                                  *)
(***************************************************************************)
MaxPlayers == 2      \* largest num_players a session is started with
NumKeyboards == 2    \* physical keyboards plugged in from the start
NumMice == 2         \* physical mice plugged in from the start
NumSpare == 1        \* physical keyboards that may be plugged in later
MaxSessions == 1     \* sessions a front end is taken through, detection included
MaxGtkSessions == 2  \* sessions the GTK window is taken through on its own

NoReturn == 0 - 1    \* the watcher has not returned (it keeps waiting)
NoNames == <<<<"-">>>>  \* no setup_players has returned since the hierarchy changed

Max(a, b) == IF a >= b THEN a ELSE b
Min(a, b) == IF a <= b THEN a ELSE b
Range(s) == {s[i] : i \in DOMAIN s}

(***************************************************************************)
(* The X server's device hierarchy, as the xinput commands change it       *)
(***************************************************************************)
Device(i, n, u, a) == [deviceid |-> i, name |-> n, use |-> u, attachment |-> a]

KeyboardWords == <<"K1", "K2", "K3", "K4", "K5">>
MouseWords == <<"M1", "M2", "M3", "M4">>
PlayerWords == <<"Player1", "Player2", "Player3", "Player4", "Player5">>

DeviceIds(devs) == {devs[i].deviceid : i \in DOMAIN devs}

\* The server gives a new device the lowest free id; 0 and 1 are reserved.
RECURSIVE FreeId(_, _)
FreeId(used, from) == IF from \in used THEN FreeId(used, from + 1) ELSE from

\* A physical device plugged in: appended to the list, attached to the core pair.
PlugDevice(devs, words, use) ==
    Append(devs, Device(FreeId(DeviceIds(devs), 2), words, use,
                        IF use = SLAVE_KEYBOARD THEN VIRTUAL_CORE_KEYBOARD
                                                ELSE VIRTUAL_CORE_POINTER))

RECURSIVE PlugAll(_, _, _, _)
PlugAll(devs, words, use, n) ==
    IF n = 0 THEN devs
    ELSE PlugDevice(PlugAll(devs, words, use, n - 1), <<"Acme", words[n]>>, use)

CoreDevices ==
    << Device(VIRTUAL_CORE_POINTER, <<"Virtual", "core", "pointer">>,
              MASTER_POINTER, VIRTUAL_CORE_KEYBOARD),
       Device(VIRTUAL_CORE_KEYBOARD, <<"Virtual", "core", "keyboard">>,
              MASTER_KEYBOARD, VIRTUAL_CORE_POINTER),
       Device(4, <<"Virtual", "core", "XTEST", "pointer">>,
              SLAVE_POINTER, VIRTUAL_CORE_POINTER),
       Device(5, <<"Virtual", "core", "XTEST", "keyboard">>,
              SLAVE_KEYBOARD, VIRTUAL_CORE_KEYBOARD) >>

InitialDevices ==
    PlugAll(PlugAll(CoreDevices, KeyboardWords, SLAVE_KEYBOARD, NumKeyboards),
            MouseWords, SLAVE_POINTER, NumMice)

DeviceById(devs, id) == CHOOSE d \in Range(devs) : d.deviceid = id

IsMaster(d) == d.use \in {MASTER_POINTER, MASTER_KEYBOARD}
HasWord(n, w) == \E i \in DOMAIN n : n[i] = w

\* xinput create-master NAME: "NAME pointer", "NAME keyboard" and their XTEST
\* slaves, in that order, each with the lowest free id.
CreateMasterEffect(devs, name) ==
    LET used == DeviceIds(devs)
        p  == FreeId(used, 2)
        k  == FreeId(used \cup {p}, 2)
        xp == FreeId(used \cup {p, k}, 2)
        xk == FreeId(used \cup {p, k, xp}, 2)
    IN devs \o << Device(p, name \o <<"pointer">>, MASTER_POINTER, k),
                  Device(k, name \o <<"keyboard">>, MASTER_KEYBOARD, p),
                  Device(xp, name \o <<"XTEST", "pointer">>, SLAVE_POINTER, p),
                  Device(xk, name \o <<"XTEST", "keyboard">>, SLAVE_KEYBOARD, k) >>

\* xinput remove-master ID AttachToMaster RP RK is refused unless ID is a master
\* other than the core pair, RP a master pointer and RK a master keyboard that
\* stay.
RemoveMasterValid(devs, id, rp, rk) ==
    /\ \E d \in Range(devs) : d.deviceid = id /\ IsMaster(d)
    /\ id \notin {VIRTUAL_CORE_POINTER, VIRTUAL_CORE_KEYBOARD}
    /\ LET paired == DeviceById(devs, id).attachment
       IN /\ \E d \in Range(devs) :
                d.deviceid = rp /\ d.use = MASTER_POINTER /\ rp \notin {id, paired}
          /\ \E d \in Range(devs) :
                d.deviceid = rk /\ d.use = MASTER_KEYBOARD /\ rk \notin {id, paired}

\* The pair and its XTEST slaves go; the other slaves of the pair are attached
\* to RP (pointers) and RK (keyboards).
RemoveMasterEffect(devs, id, rp, rk) ==
    LET pair == {id, DeviceById(devs, id).attachment}
        gone(d) == \/ d.deviceid \in pair
                   \/ (~IsMaster(d) /\ d.attachment \in pair /\ HasWord(d.name, "XTEST"))
        moved(d) == IF ~IsMaster(d) /\ d.attachment \in pair
                    THEN [d EXCEPT !.attachment =
                             IF d.use = SLAVE_POINTER THEN rp ELSE rk]
                    ELSE d
        kept == SelectSeq(devs, LAMBDA d : ~gone(d))
    IN [i \in DOMAIN kept |-> moved(kept[i])]

\* xinput reattach ID MASTER is refused unless ID is a physical slave and
\* MASTER a master of its kind.
ReattachValid(devs, id, master) ==
    /\ \E d \in Range(devs) :
          d.deviceid = id /\ ~IsMaster(d) /\ ~HasWord(d.name, "XTEST")
    /\ \E m \in Range(devs) :
          /\ m.deviceid = master
          /\ m.use = (IF DeviceById(devs, id).use = SLAVE_POINTER
                      THEN MASTER_POINTER ELSE MASTER_KEYBOARD)

ReattachEffect(devs, id, master) ==
    [i \in DOMAIN devs |->
        IF devs[i].deviceid = id THEN [devs[i] EXCEPT !.attachment = master]
        ELSE devs[i]]

(***************************************************************************)
(* core.py: device enumeration                                             *)
(***************************************************************************)
get_all_devices(devs) == devs

get_slave_keyboards(devs) == SelectSeq(get_all_devices(devs), LAMBDA d : d.use = SLAVE_KEYBOARD)
get_slave_pointers(devs) == SelectSeq(get_all_devices(devs), LAMBDA d : d.use = SLAVE_POINTER)
get_master_keyboards(devs) == SelectSeq(get_all_devices(devs), LAMBDA d : d.use = MASTER_KEYBOARD)
get_master_pointers(devs) == SelectSeq(get_all_devices(devs), LAMBDA d : d.use = MASTER_POINTER)

\* First match of a list, or <<>> for None.
First(s) == IF s = <<>> THEN <<>> ELSE <<s[1]>>

find_master_keyboard_by_name(devs, name) ==
    First(SelectSeq(get_master_keyboards(devs), LAMBDA d : d.name = name \o <<"keyboard">>))

find_master_pointer_by_name(devs, name) ==
    First(SelectSeq(get_master_pointers(devs), LAMBDA d : d.name = name \o <<"pointer">>))

\* A variant of the enumeration below that leaves the XTEST devices in.
AllSlaveKeyboardIds(devs) == {d.deviceid : d \in Range(get_slave_keyboards(devs))}

get_slave_keyboard_ids(devs) ==
    {d.deviceid : d \in {x \in Range(get_slave_keyboards(devs)) : ~HasWord(x.name, "XTEST")}}

get_slave_pointer_ids(devs) ==
    {d.deviceid : d \in {x \in Range(get_slave_pointers(devs)) : ~HasWord(x.name, "XTEST")}}

EndsWithWord(n, w) == Len(n) >= 2 /\ n[Len(n)] = w
DropLastWord(n) == SubSeq(n, 1, Len(n) - 1)

\* A variant of the definition below: the search stops at the first pair.
FirstExtraMaster(devs) ==
    LET master_pointers == SelectSeq(get_all_devices(devs), LAMBDA d :
            d.use = MASTER_POINTER /\ d.name # <<"Virtual", "core", "pointer">>)
        master_keyboards == SelectSeq(get_all_devices(devs), LAMBDA d :
            d.use = MASTER_KEYBOARD /\ d.name # <<"Virtual", "core", "keyboard">>)
        match(p) == SelectSeq(master_keyboards, LAMBDA k :
            k.name = DropLastWord(p.name) \o <<"keyboard">>)
        paired == SelectSeq(master_pointers, LAMBDA p :
            EndsWithWord(p.name, "pointer") /\ match(p) # <<>>)
    IN [i \in 1 .. Min(Len(paired), 1) |-> <<paired[i], match(paired[i])[1]>>]

\* A variant of the definition below: the core pair is not left out.
AllMasterPairs(devs) ==
    LET master_pointers == SelectSeq(get_all_devices(devs), LAMBDA d : d.use = MASTER_POINTER)
        master_keyboards == SelectSeq(get_all_devices(devs), LAMBDA d : d.use = MASTER_KEYBOARD)
        match(p) == SelectSeq(master_keyboards, LAMBDA k :
            k.name = DropLastWord(p.name) \o <<"keyboard">>)
        paired == SelectSeq(master_pointers, LAMBDA p :
            EndsWithWord(p.name, "pointer") /\ match(p) # <<>>)
    IN [i \in DOMAIN paired |-> <<paired[i], match(paired[i])[1]>>]

\* The (pointer, keyboard) pairs of the masters other than the core pair.
get_extra_masters(devs) ==
    LET master_pointers == SelectSeq(get_all_devices(devs), LAMBDA d :
            d.use = MASTER_POINTER /\ d.name # <<"Virtual", "core", "pointer">>)
        master_keyboards == SelectSeq(get_all_devices(devs), LAMBDA d :
            d.use = MASTER_KEYBOARD /\ d.name # <<"Virtual", "core", "keyboard">>)
        match(p) == SelectSeq(master_keyboards, LAMBDA k :
            k.name = DropLastWord(p.name) \o <<"keyboard">>)
        paired == SelectSeq(master_pointers, LAMBDA p :
            EndsWithWord(p.name, "pointer") /\ match(p) # <<>>)
    IN [i \in DOMAIN paired |-> <<paired[i], match(paired[i])[1]>>]

\* The name prefix cleanup_extra_masters compares with keep_names.
MasterPrefix(pointer) ==
    IF EndsWithWord(pointer.name, "pointer") THEN DropLastWord(pointer.name)
    ELSE pointer.name

(***************************************************************************)
(* Raw input events and the watchers that wait for them                    *)
(***************************************************************************)
\* The bytes of a value on the wire, least significant first.
RECURSIVE LittleEndian(_, _)
LittleEndian(v, n) == IF n = 0 THEN <<>> ELSE <<v % 256>> \o LittleEndian(v \div 256, n - 1)

\* What the server puts after evtype in a raw event: deviceid (2 bytes),
\* time (4 bytes), detail (4 bytes).
RawEventData(src, time, detail) ==
    LittleEndian(src, 2) \o LittleEndian(time, 4) \o LittleEndian(detail, 4)

\* An XInput2 raw event of device src, and an event of the core protocol
\* (which has neither evtype nor data).
RawEvent(evtype, src, time, detail) ==
    [type |-> "GenericEvent", evtype |-> evtype, src |-> src, detail |-> detail,
     data |-> RawEventData(src, time, detail)]
CoreEvent(src) ==
    [type |-> "KeyPress", evtype |-> "none", src |-> src, detail |-> 0, data |-> <<>>]
NoEvent == [type |-> "none", evtype |-> "none", src |-> 0, detail |-> 0, data |-> <<>>]

EvTypes == {"RawKeyPress", "RawButtonPress", "RawKeyRelease"}
Times == {0, 36}
Details == {1, 36, 38, 292}

EventsOf(ids) ==
    {RawEvent(t, s, tm, d) : t \in EvTypes, s \in ids, tm \in Times, d \in Details}
        \cup {CoreEvent(s) : s \in ids}

RECURSIVE FromLittleEndian(_)
FromLittleEndian(b) ==
    IF b = <<>> THEN 0 ELSE b[1] + 256 * FromLittleEndian(SubSeq(b, 2, Len(b)))

\* struct.unpack('<HII', data[:10])
Unpack(data) ==
    [device_id |-> FromLittleEndian(SubSeq(data, 1, 2)),
     time |-> FromLittleEndian(SubSeq(data, 3, 6)),
     detail |-> FromLittleEndian(SubSeq(data, 7, 10))]

\* Variants of the two tests below that let everything through.
AnyDevice(device_id, ids) == TRUE
AnyKey(keycode) == TRUE

\* "if device_id not in slave_keyboard_ids: continue"
AcceptableDevice(device_id, ids) == device_id \in ids

\* "if keycode == ENTER_KEYCODE"
IsConfirmKey(keycode) == keycode = ENTER_KEYCODE

\* One turn of wait_for_enter_key's loop on event e: the device id it returns,
\* or NoReturn when it goes on waiting.
wait_for_enter_key(e, ids) ==
    IF e.type = "GenericEvent" /\ e.evtype = "RawKeyPress"
    THEN LET u == Unpack(e.data)
         IN IF ~AcceptableDevice(u.device_id, ids) THEN NoReturn
            ELSE IF IsConfirmKey(u.detail) THEN u.device_id
            ELSE NoReturn
    ELSE NoReturn

\* One turn of wait_for_mouse_click's loop on event e.
wait_for_mouse_click(e, ids) ==
    IF e.type = "GenericEvent" /\ e.evtype = "RawButtonPress"
    THEN LET u == Unpack(e.data)
         IN IF ~AcceptableDevice(u.device_id, ids) THEN NoReturn
            ELSE u.device_id
    ELSE NoReturn

\* One turn of wait_for_enter_key_with_cancel's loop on event e (Kodi).
wait_for_enter_key_with_cancel(e, ids) ==
    IF Len(e.data) >= 10
    THEN LET u == Unpack(e.data)
         IN IF u.detail = 36 /\ u.device_id \in ids THEN u.device_id ELSE NoReturn
    ELSE NoReturn

\* One turn of wait_for_mouse_click_with_cancel's loop on event e (Kodi).
wait_for_mouse_click_with_cancel(e, ids) ==
    IF Len(e.data) >= 10
    THEN LET u == Unpack(e.data)
         IN IF u.device_id \in ids THEN u.device_id ELSE NoReturn
    ELSE NoReturn

(***************************************************************************)
(* The core watchers on their own: any acceptable set, any event sequence  *)
(***************************************************************************)
WatchIds == 2 .. (5 + NumKeyboards)

SessionIdle ==
    /\ spare = NumSpare
    /\ pc = "idle"
    /\ names = <<>>
    /\ detect_mice = FALSE
    /\ cur = 1
    /\ player_keyboards = <<>>
    /\ player_mice = <<>>
    /\ already_assigned = {}
    /\ slave_keyboard_ids = {}
    /\ slave_pointer_ids = {}
    /\ canceled = FALSE
    /\ out = <<>>
    /\ ret = NoReturn
    /\ tick = FALSE
    /\ cmds = <<>>
    /\ todo = <<>>
    /\ idx = 1
    /\ rtodo = <<>>
    /\ rcmds = <<>>
    /\ ractive = FALSE
    /\ last_ok_names = NoNames
    /\ started = 0
    /\ handshake = "ok"
    /\ waiting = 0
    /\ argv = <<>>

\* "xinput.RawKeyPressMask", "xinput.RawButtonPressMask": the raw events a
\* watcher of the kind selects on the root window; mask 0 selects none.
MaskOf(kind) == IF kind = "key" THEN {"RawKeyPress"} ELSE {"RawButtonPress"}

WatchInit ==
    /\ SessionIdle
    /\ devices = InitialDevices
    /\ fe = "cli"
    /\ w_pc = "waiting"
    /\ w_kind \in {"key", "button"}
    /\ w_ids \in SUBSET WatchIds
    /\ w_ev = NoEvent
    /\ w_ret = NoReturn
    /\ w_mask = MaskOf(w_kind)
    /\ w_canceled = FALSE

\* dpy.next_event() delivers e to the waiting watcher.
WatchEvent(e) ==
    /\ w_pc = "waiting"
    /\ w_ev' = e
    /\ LET r == IF w_kind = "key" THEN wait_for_enter_key(e, w_ids)
                ELSE wait_for_mouse_click(e, w_ids)
       IN /\ w_ret' = r
          /\ w_pc' = IF r = NoReturn THEN "waiting" ELSE "returned"
    /\ UNCHANGED <<w_kind, w_ids, w_mask, w_canceled, server_vars, session_vars>>

\* The caller calls a watcher again.
WatchCall ==
    /\ w_pc = "returned"
    /\ w_pc' = "waiting"
    /\ w_kind' \in {"key", "button"}
    /\ w_ev' = NoEvent
    /\ w_ret' = NoReturn
    /\ w_mask' = MaskOf(w_kind')
    /\ UNCHANGED <<w_ids, w_canceled, server_vars, session_vars>>

WatchNext ==
    \/ \E e \in EventsOf(WatchIds) : WatchEvent(e)
    \/ WatchCall

WatchSpec == WatchInit /\ [][WatchNext]_vars

(***************************************************************************)
(* The cancellable watchers of kodi_gui.py on their own                    *)
(***************************************************************************)
CancelWatchInit ==
    /\ SessionIdle
    /\ devices = InitialDevices
    /\ fe = "kodi"
    /\ w_pc = "waiting"
    /\ w_kind \in {"key", "button"}
    /\ w_ids \in SUBSET WatchIds
    /\ w_ev = NoEvent
    /\ w_ret = NoReturn
    /\ w_mask = MaskOf(w_kind)
    /\ w_canceled = FALSE

\* "if is_canceled(): return None" leaves the selection as it is.
MaskAfterCancel(mask) == mask

\* dpy.next_event() delivers e to the waiting watcher, which returns the
\* device (the selection cleared first) or goes round its loop.
CancelWatchEvent(e) ==
    /\ w_pc = "waiting"
    /\ w_ev' = e
    /\ LET r == IF w_kind = "key" THEN wait_for_enter_key_with_cancel(e, w_ids)
                ELSE wait_for_mouse_click_with_cancel(e, w_ids)
       IN /\ w_ret' = r
          /\ w_pc' = IF r = NoReturn THEN "waiting" ELSE "returned"
          /\ w_mask' = IF r = NoReturn THEN w_mask ELSE {}
    /\ UNCHANGED <<w_kind, w_ids, w_canceled, server_vars, session_vars>>

\* The predicate the caller handed over becomes true.
CancelWatchCancel ==
    /\ w_pc = "waiting"
    /\ ~w_canceled
    /\ w_canceled' = TRUE
    /\ UNCHANGED <<w_pc, w_kind, w_ids, w_ev, w_ret, w_mask, server_vars, session_vars>>

\* The loop comes round to its check and the watcher returns None.
CancelWatchPoll ==
    /\ w_pc = "waiting"
    /\ w_canceled
    /\ w_pc' = "cancelled"
    /\ w_ret' = NoReturn
    /\ w_mask' = MaskAfterCancel(w_mask)
    /\ UNCHANGED <<w_kind, w_ids, w_ev, w_canceled, server_vars, session_vars>>

\* A call in the loop raises (the connection breaks): the handler clears the
\* selection and raises again.
CancelWatchRaise ==
    /\ w_pc = "waiting"
    /\ w_pc' = "raised"
    /\ w_ret' = NoReturn
    /\ w_mask' = {}
    /\ UNCHANGED <<w_kind, w_ids, w_ev, w_canceled, server_vars, session_vars>>

\* setup_multiplayer calls a watcher again: for the next prompt, or in a
\* wizard started anew from the menu after a cancelled one.
CancelWatchCall ==
    /\ w_pc \in {"returned", "cancelled"}
    /\ w_pc' = "waiting"
    /\ w_kind' \in {"key", "button"}
    /\ w_ev' = NoEvent
    /\ w_ret' = NoReturn
    /\ w_mask' = MaskOf(w_kind')
    /\ w_canceled' = FALSE
    /\ UNCHANGED <<w_ids, server_vars, session_vars>>

CancelWatchNext ==
    \/ \E e \in EventsOf(WatchIds) : CancelWatchEvent(e)
    \/ CancelWatchCancel
    \/ CancelWatchPoll
    \/ CancelWatchRaise
    \/ CancelWatchCall

CancelWatchSpec == CancelWatchInit /\ [][CancelWatchNext]_vars

(***************************************************************************)
(* core.py: the external xinput commands                                   *)
(***************************************************************************)
create_master(name) ==
    [op |-> "create-master", name |-> name, a |-> 0, b |-> 0, c |-> 0]

reattach_device(device_id, master_id) ==
    [op |-> "reattach", name |-> <<>>, a |-> device_id, b |-> master_id, c |-> 0]

remove_master(master_pointer_id, return_pointer_id, return_keyboard_id) ==
    [op |-> "remove-master", name |-> <<>>, a |-> master_pointer_id,
     b |-> return_pointer_id, c |-> return_keyboard_id]

\* The server carries the command out, or xinput exits non-zero.
CmdValid(devs, cmd) ==
    CASE cmd.op = "create-master" -> TRUE
      [] cmd.op = "reattach" -> ReattachValid(devs, cmd.a, cmd.b)
      [] cmd.op = "remove-master" -> RemoveMasterValid(devs, cmd.a, cmd.b, cmd.c)

CmdEffect(devs, cmd) ==
    CASE cmd.op = "create-master" -> CreateMasterEffect(devs, cmd.name)
      [] cmd.op = "reattach" -> ReattachEffect(devs, cmd.a, cmd.b)
      [] cmd.op = "remove-master" -> RemoveMasterEffect(devs, cmd.a, cmd.b, cmd.c)

\* An entry of the command log: the command, the master or player the message
\* logged with it names, who issued it, how it ended.
Logged(cmd, about, by, ok) ==
    [op |-> cmd.op, name |-> cmd.name, a |-> cmd.a, b |-> cmd.b, c |-> cmd.c,
     about |-> about, by |-> by, ok |-> ok]

(***************************************************************************)
(* Player names and claim maps                                             *)
(***************************************************************************)
\* s[:n]
PyPrefix(s, n) ==
    IF n >= 0 THEN SubSeq(s, 1, Min(n, Len(s)))
    ELSE SubSeq(s, 1, Max(Len(s) + n, 0))

\* s[1:]
PyRest(s) == SubSeq(s, 2, Len(s))

\* [f"Player{i+1}" for i in range(n)]
DefaultNames(n) == [i \in 1 .. Max(n, 0) |-> <<PlayerWords[i]>>]

\* run_cli's player list from num_players and --names.
GenerateNames(num_players, player_names) ==
    IF player_names # <<>> /\ Len(player_names) >= num_players
    THEN PyPrefix(player_names, num_players)
    ELSE [i \in 1 .. Max(num_players, 0) |->
             IF i <= Len(player_names) THEN player_names[i] ELSE <<PlayerWords[i]>>]

\* A dict keeps its keys in insertion order; d[k] = v.
DictKeys(d) == {d[i][1] : i \in DOMAIN d}
DictValues(d) == {d[i][2] : i \in DOMAIN d}
DictSet(d, k, v) ==
    IF k \in DictKeys(d)
    THEN [i \in DOMAIN d |-> IF d[i][1] = k THEN <<k, v>> ELSE d[i]]
    ELSE Append(d, <<k, v>>)

CustomNames == {<<"Ann">>, <<"Player2">>}
MaxCustom == 2

RECURSIVE SeqsUpTo(_, _)
SeqsUpTo(S, n) ==
    IF n = 0 THEN {<<>>}
    ELSE LET shorter == SeqsUpTo(S, n - 1)
         IN shorter \cup {Append(s, x) : s \in {t \in shorter : Len(t) = n - 1}, x \in S}

(***************************************************************************)
(* The detection loops of the front ends                                   *)
(***************************************************************************)
\* Variants of the three definitions below: a loop without the "seen" test,
\* one that moves on after a rejection, one that stops a player early.
NeverAssigned(id, assigned) == FALSE
AdvanceAfterReject(i) == i + 1
DoneOneEarly(i, player_list) == i + 1 >= Len(player_list)

\* "if keyboard_id in already_assigned_keyboards"
IsAlreadyAssigned(id, assigned) == id \in assigned

\* "continue": the loop of the same player goes round again.
PlayerAfterReject(i) == i

\* The loop over the players has run out after the claim of player i.
PlayersDone(i, player_list) == i >= Len(player_list)

\* The "seen" set the next prompt checks against: the console adds to a set
\* it keeps, the GTK and Kodi flows rebuild it from the claim map.
SeenAfterClaim(f, assigned, claims, id) ==
    IF f = "cli" THEN assigned \cup {id} ELSE DictValues(claims)

\* The acceptable ids of the next prompt: the console uses the sets it read
\* when it started, the GTK and Kodi flows query the device list again.
KeyboardIdsForPrompt(f, snapshot, devs) ==
    IF f = "cli" THEN snapshot ELSE get_slave_keyboard_ids(devs)
PointerIdsForPrompt(f, snapshot, devs) ==
    IF f = "cli" THEN snapshot ELSE get_slave_pointer_ids(devs)

SessionEvents(devs) ==
    {RawEvent(t, s, 0, d) : t \in EvTypes, s \in DeviceIds(devs), d \in {1, 36, 38}}
        \cup {CoreEvent(s) : s \in DeviceIds(devs)}

\* The watcher variables of WatchSpec stay as they are everywhere else.
WatchIdle ==
    /\ w_pc = "waiting"
    /\ w_kind = "key"
    /\ w_ids = {}
    /\ w_ev = NoEvent
    /\ w_ret = NoReturn
    /\ w_mask = {}
    /\ w_canceled = FALSE

\* What an earlier session for the players Player1 and Ann left behind: the
\* master pair "Ann" with the second keyboard attached to it.
LeftOverDevices ==
    LET created == CreateMasterEffect(InitialDevices, <<"Ann">>)
        second == get_slave_keyboards(InitialDevices)[3].deviceid
    IN ReattachEffect(created, second,
                      find_master_keyboard_by_name(created, <<"Ann">>)[1].deviceid)

\* A front end is started on a display that no session has touched, or on
\* one an earlier session has left its master pair on.
Init ==
    /\ SessionIdle
    /\ WatchIdle
    /\ fe \in {"cli", "gtk", "kodi"}
    /\ devices \in {InitialDevices, LeftOverDevices}

\* A variant of the definition below: the front end goes on whatever the
\* handshake gave.
IdleWhatever(hs) == "idle"

\* Where a front end stands after get_display() and xinput_query_version():
\* ready, or over (the console and GTK die of the exception, Kodi shows a
\* dialog and returns).
AfterHandshake(hs) == IF hs THEN "idle" ELSE "nodisplay"

\* A process of the program starts, the one that ran left behind: front end
\* f stands at p with handshake h, having told the user o; nothing of an
\* earlier session is left in it.
ProcessStart(f, h, p, o) ==
    /\ pc \in {"idle", "done", "failed", "cancelled", "nodisplay", "usage"}
    /\ ~ractive
    /\ fe' = f
    /\ handshake' = h
    /\ pc' = p
    /\ names' = <<>>
    /\ detect_mice' = FALSE
    /\ cur' = 1
    /\ player_keyboards' = <<>>
    /\ player_mice' = <<>>
    /\ already_assigned' = {}
    /\ slave_keyboard_ids' = {}
    /\ slave_pointer_ids' = {}
    /\ canceled' = FALSE
    /\ out' = o
    /\ ret' = NoReturn
    /\ cmds' = <<>>
    /\ todo' = <<>>
    /\ idx' = 1
    /\ waiting' = 0
    /\ UNCHANGED <<tick, rtodo, rcmds, ractive, last_ok_names, started, server_vars,
                   watch_vars>>

\* The user starts one of the front ends (and leaves the one that ran); it
\* opens the display and asks for the XInput2 version, which succeeds or not.
\* The console does so after it has generated the names, which touches
\* nothing else.
Launch(f, hs) ==
    /\ ProcessStart(f, IF hs THEN "ok" ELSE "failed", AfterHandshake(hs),
                    IF hs THEN <<>> ELSE <<"error">>)
    /\ argv' = <<>>

\* XInput2GUI.start_detection starts a background thread that blocks in a
\* watcher; the console and Kodi wait in the flow that called them.
ThreadsAfterStart(f, n) == IF f = "gtk" THEN n + 1 ELSE n

\* detect_next_keyboard, detect_next_mouse: the thread whose watcher returned
\* an unclaimed device starts its successor as its last statement; the
\* successor blocks in a watcher when there is more to detect, and hands over
\* to finish_setup otherwise.
ThreadsAfterClaim(f, n, more) == IF f = "gtk" /\ ~more THEN n - 1 ELSE n

\* A variant of the definition below: num_players is asked for before the
\* GUI flag is looked at.
NumPlayersFirst(args) ==
    IF args.num_players = <<>> THEN "usage"
    ELSE IF args.gui THEN "gui"
    ELSE "cli"

\* main(): where the parsed arguments send the run.
Dispatch(args) ==
    IF args.gui THEN "gui"
    ELSE IF args.num_players = <<>> THEN "usage"
    ELSE "cli"

\* main() is run with arguments args (num_players: <<>> when absent, <<n>>
\* when given): run_gui() when --gui is given; parser.error(), which prints
\* the usage and exits with status 2, when num_players is absent; the console
\* flow otherwise, which opens the display and asks for the XInput2 version
\* once it has the names.
Main(args, hs) ==
    /\ argv' = <<args>>
    /\ IF Dispatch(args) = "usage"
       THEN ProcessStart("cli", "none", "usage", <<"usage", "exit 2">>)
       ELSE ProcessStart(IF Dispatch(args) = "gui" THEN "gtk" ELSE "cli",
                         IF hs THEN "ok" ELSE "failed", AfterHandshake(hs),
                         IF hs THEN <<>> ELSE <<"error">>)

\* A session begins with player list nm: the flow runs to its first prompt, or
\* with no player straight to the assignment.
Begin(nm, mice) ==
    /\ ~ractive
    /\ started' = started + 1
    /\ names' = nm
    /\ detect_mice' = mice
    /\ cur' = 1
    /\ player_keyboards' = <<>>
    /\ player_mice' = <<>>
    /\ already_assigned' = {}
    /\ slave_keyboard_ids' = get_slave_keyboard_ids(devices)
    /\ slave_pointer_ids' = get_slave_pointer_ids(devices)
    /\ canceled' = FALSE
    /\ ret' = NoReturn
    /\ cmds' = <<>>
    /\ todo' = <<>>
    /\ idx' = 1
    /\ pc' = IF nm = <<>> THEN "assign" ELSE "kbd"
    /\ out' = IF nm = <<>> THEN <<"assigning">> ELSE <<"prompt">>
    /\ waiting' = IF nm = <<>> THEN waiting ELSE ThreadsAfterStart(fe, waiting)
    /\ UNCHANGED <<fe, tick, rtodo, rcmds, ractive, last_ok_names, handshake, argv, server_vars,
                   watch_vars>>

\* run_cli(num_players, player_names, detect_mice)
StartCli(num_players, player_names, mice) ==
    /\ fe = "cli"
    /\ pc = "idle"
    /\ argv # <<>> => argv[1].num_players = <<num_players>>
    /\ Begin(GenerateNames(num_players, player_names), mice)

\* A variant of the definition below: a Start button that stays sensitive.
AlwaysSensitive(p) == TRUE

\* XInput2GUI.set_controls_sensitive: the Start button is sensitive until
\* start_detection disables it, and again once finish_setup has come to its
\* end; a finish_setup that died of a failed command leaves it disabled.
StartSensitive(p) == p \in {"idle", "done"}

\* XInput2GUI.start_detection: the Start button, served when it is sensitive
\* and the UI thread is free.
StartGtk(num_players, mice) ==
    /\ fe = "gtk"
    /\ StartSensitive(pc)
    /\ ~ractive
    /\ Begin(DefaultNames(num_players), mice)

\* setup_multiplayer, from the menu of run_kodi_gui.
StartKodi(num_players, mice) ==
    /\ fe = "kodi"
    /\ pc \in {"idle", "done", "cancelled"}
    /\ ~ractive
    /\ Begin(DefaultNames(num_players), mice)

\* A variant of the definition below: a flow that never looks at the
\* cancellation predicate.
NeverSeen == FALSE

\* Kodi looks at the cancellation predicate whenever its flow comes round to
\* the top of a loop; the other front ends have none.
CancelSeen == fe = "kodi" /\ canceled

\* A variant of the definition below: a check without its return.
FallThrough(p) == p

\* "progress.close(); return": where setup_multiplayer stands once one of its
\* checks, or a watcher's, has seen the cancellation at position p.
ReturnOnCancel(p) == "cancelled"

\* The watcher returned r, which the "seen" set holds: the same player is
\* asked again.
Reject(r) ==
    /\ ret' = r
    /\ tick' = ~tick
    /\ cur' = PlayerAfterReject(cur)
    /\ pc' = IF CancelSeen THEN ReturnOnCancel(pc) ELSE pc
    /\ out' = IF fe = "cli" THEN <<"already assigned", "prompt">>
              ELSE <<"already assigned">>
    /\ UNCHANGED <<fe, names, detect_mice, player_keyboards, player_mice,
                   already_assigned, slave_keyboard_ids, slave_pointer_ids, canceled,
                   cmds, todo, idx, rtodo, rcmds, ractive, last_ok_names, started, handshake, argv, waiting, server_vars,
                   watch_vars>>

\* The watcher returned keyboard r, which is recorded for the player at cur;
\* the flow goes on to the next prompt, to the mice, or to the assignment.
ClaimKeyboard(r) ==
    LET claims == DictSet(player_keyboards, names[cur], r)
        last == PlayersDone(cur, names)
        stop == CancelSeen /\ (~last \/ detect_mice)
    IN /\ ret' = r
       /\ tick' = ~tick
       /\ player_keyboards' = claims
       /\ cur' = IF last /\ detect_mice THEN 1 ELSE cur + 1
       /\ pc' = IF stop THEN ReturnOnCancel(pc)
                ELSE IF ~last THEN "kbd"
                ELSE IF detect_mice THEN "mouse" ELSE "assign"
       /\ out' = IF stop THEN <<"detected">>
                 ELSE IF last /\ ~detect_mice THEN <<"detected", "assigning">>
                 ELSE <<"detected", "prompt">>
       /\ already_assigned' =
             IF stop THEN already_assigned
             ELSE IF last /\ detect_mice THEN {}
             ELSE SeenAfterClaim(fe, already_assigned, claims, r)
       /\ slave_keyboard_ids' =
             IF stop \/ last THEN slave_keyboard_ids
             ELSE KeyboardIdsForPrompt(fe, slave_keyboard_ids, devices)
       /\ slave_pointer_ids' =
             IF ~stop /\ last /\ detect_mice
             THEN PointerIdsForPrompt(fe, slave_pointer_ids, devices)
             ELSE slave_pointer_ids
       /\ waiting' = ThreadsAfterClaim(fe, waiting, ~last \/ detect_mice)
       /\ UNCHANGED <<fe, names, detect_mice, player_mice, canceled, cmds, todo, idx,
                      rtodo, rcmds, ractive, last_ok_names, started, handshake, argv, server_vars,
                      watch_vars>>

\* The watcher returned pointer r, which is recorded for the player at cur.
ClaimMouse(r) ==
    LET claims == DictSet(player_mice, names[cur], r)
        last == PlayersDone(cur, names)
        stop == CancelSeen /\ ~last
    IN /\ ret' = r
       /\ tick' = ~tick
       /\ player_mice' = claims
       /\ cur' = cur + 1
       /\ pc' = IF stop THEN ReturnOnCancel(pc)
                ELSE IF ~last THEN "mouse" ELSE "assign"
       /\ out' = IF stop THEN <<"detected">>
                 ELSE IF last THEN <<"detected", "assigning">>
                 ELSE <<"detected", "prompt">>
       /\ already_assigned' =
             IF stop \/ last THEN already_assigned
             ELSE SeenAfterClaim(fe, already_assigned, claims, r)
       /\ slave_pointer_ids' =
             IF stop \/ last THEN slave_pointer_ids
             ELSE PointerIdsForPrompt(fe, slave_pointer_ids, devices)
       /\ waiting' = ThreadsAfterClaim(fe, waiting, ~last)
       /\ UNCHANGED <<fe, names, detect_mice, player_keyboards, slave_keyboard_ids,
                      canceled, cmds, todo, idx, rtodo, rcmds, ractive, last_ok_names, started,
                      handshake, argv, server_vars, watch_vars>>

\* The watcher let the event pass and waits on; Kodi's comes round to its
\* cancellation check first.
Ignored ==
    /\ pc' = IF CancelSeen THEN ReturnOnCancel(pc) ELSE pc
    /\ out' = IF CancelSeen THEN <<>> ELSE out
    /\ UNCHANGED <<fe, names, detect_mice, cur, player_keyboards, player_mice,
                   already_assigned, slave_keyboard_ids, slave_pointer_ids, canceled,
                   ret, tick, cmds, todo, idx, rtodo, rcmds, ractive, last_ok_names, started, handshake, argv, waiting,
                   server_vars, watch_vars>>

\* A raw event reaches the flow that waits for a player's keyboard.
KeyboardEvent(e) ==
    /\ pc = "kbd"
    /\ LET r == IF fe = "kodi"
                THEN wait_for_enter_key_with_cancel(e, slave_keyboard_ids)
                ELSE wait_for_enter_key(e, slave_keyboard_ids)
       IN IF r = NoReturn THEN Ignored
          ELSE IF IsAlreadyAssigned(r, already_assigned) THEN Reject(r)
          ELSE ClaimKeyboard(r)

\* A raw event reaches the flow that waits for a player's mouse.
MouseEvent(e) ==
    /\ pc = "mouse"
    /\ LET r == IF fe = "kodi"
                THEN wait_for_mouse_click_with_cancel(e, slave_pointer_ids)
                ELSE wait_for_mouse_click(e, slave_pointer_ids)
       IN IF r = NoReturn THEN Ignored
          ELSE IF IsAlreadyAssigned(r, already_assigned) THEN Reject(r)
          ELSE ClaimMouse(r)

\* Kodi: the user cancels the progress dialog (or Kodi asks add-ons to stop).
KodiCancel ==
    /\ fe = "kodi"
    /\ pc \in {"kbd", "mouse"}
    /\ ~canceled
    /\ canceled' = TRUE
    /\ UNCHANGED <<fe, pc, names, detect_mice, cur, player_keyboards, player_mice,
                   already_assigned, slave_keyboard_ids, slave_pointer_ids, out, ret,
                   tick, cmds, todo, idx, rtodo, rcmds, ractive, last_ok_names, started, handshake, argv, waiting, server_vars,
                   watch_vars>>

\* Kodi: select() times out, the watcher sees the cancellation and returns
\* None, and setup_multiplayer closes the dialog and returns.
KodiPoll ==
    /\ pc \in {"kbd", "mouse"}
    /\ CancelSeen
    /\ pc' = ReturnOnCancel(pc)
    /\ out' = <<>>
    /\ UNCHANGED <<fe, names, detect_mice, cur, player_keyboards, player_mice,
                   already_assigned, slave_keyboard_ids, slave_pointer_ids, canceled,
                   ret, tick, cmds, todo, idx, rtodo, rcmds, ractive, last_ok_names, started, handshake, argv, waiting,
                   server_vars, watch_vars>>

\* A keyboard is plugged in.
Plug ==
    /\ spare > 0
    /\ devices' = PlugDevice(devices,
                     <<"Acme", KeyboardWords[NumKeyboards + (NumSpare - spare) + 1]>>,
                     SLAVE_KEYBOARD)
    /\ spare' = spare - 1
    /\ UNCHANGED <<session_vars, watch_vars>>

(***************************************************************************)
(* core.py: setup_players, one external command (or loop turn) a step      *)
(***************************************************************************)
\* Variants of the definitions below: a keep list of all the players, a
\* removal with the fallbacks the other way round, a creation loop that does
\* not look for the master first, the creation loop run before the cleanup.
KeepAll(player_names) == player_names
SwappedFallbacks(pointer) ==
    remove_master(pointer.deviceid, VIRTUAL_CORE_KEYBOARD, VIRTUAL_CORE_POINTER)
NoExistingMaster(devs, player_name) == <<>>
SwappedPhases == <<"create", "cleanup", "reattach_keyboards", "reattach_mice">>

\* A creation loop that treats the first player like the others.
NobodyUsesCorePair(i) == FALSE

\* A creation loop that takes every master for there already.
SomeMasterExists(devs, player_name) == <<devs[1]>>

\* "masters_to_keep = player_names[1:]"
MastersToKeep(player_names) == PyRest(player_names)

\* "if prefix not in keep_names"
ToBeRemoved(prefix, keep_names) == prefix \notin Range(keep_names)

\* "remove_master(pointer.deviceid, VIRTUAL_CORE_POINTER, VIRTUAL_CORE_KEYBOARD)"
CleanupRemoval(pointer) ==
    remove_master(pointer.deviceid, VIRTUAL_CORE_POINTER, VIRTUAL_CORE_KEYBOARD)

\* A variant of the definition below: the first item is treated like the
\* others.
NoFirstItem(i) == FALSE

\* "if i == 0": the first item of the claim map goes to the core master.
IsFirstItem(i) == i = 1

\* "if i == 0" of the creation loop: the player uses the core pair.
UsesCorePair(i) == i = 1

\* "existing_master = find_master_keyboard_by_name(dpy, player_name)"
ExistingMaster(devs, player_name) == find_master_keyboard_by_name(devs, player_name)

\* "player_mice if detect_mice else None", then "if player_mice:"
MiceToReattach == detect_mice /\ player_mice # <<>>

\* The loops of setup_players, in the order it runs them.
SetupPhases == <<"cleanup", "create", "reattach_keyboards", "reattach_mice">>

\* What follows phase p: the next loop, or the return to the front end.
PhaseAfter(p) ==
    LET i == CHOOSE j \in DOMAIN SetupPhases : SetupPhases[j] = p
    IN IF i = Len(SetupPhases) THEN "done" ELSE SetupPhases[i + 1]

\* The session runs the command; a refused or failed command raises
\* CalledProcessError, which nothing catches.
Run(cmd, about, ok) ==
    /\ ok => CmdValid(devices, cmd)
    /\ cmds' = Append(cmds, Logged(cmd, about, "setup", ok))
    /\ devices' = IF ok THEN CmdEffect(devices, cmd) ELSE devices
    /\ UNCHANGED spare

SetupFrame ==
    UNCHANGED <<fe, names, detect_mice, cur, player_keyboards, player_mice,
                already_assigned, slave_keyboard_ids, slave_pointer_ids, canceled,
                ret, tick, rtodo, rcmds, ractive, started, handshake, argv, waiting, watch_vars>>

\* A variant of Fail: the error is swallowed and the loop goes on.
CarryOnAfterError ==
    /\ idx' = idx + 1
    /\ out' = <<"error">>
    /\ UNCHANGED <<pc, todo, last_ok_names>>

Fail ==
    /\ pc' = "failed"
    /\ out' = <<"error">>
    /\ last_ok_names' = NoNames
    /\ UNCHANGED <<todo, idx>>

\* Control enters phase p: cleanup_extra_masters reads the extra masters, a
\* loop starts at its first item, or setup_players returns and the front end
\* reports that the setup is complete.
Enter(p) ==
    /\ pc' = p
    /\ idx' = 1
    /\ todo' = IF p = "cleanup" THEN get_extra_masters(devices) ELSE <<>>
    /\ out' = IF p = "done" THEN <<"complete">> ELSE out
    /\ last_ok_names' = IF p = "done" THEN names ELSE last_ok_names
    /\ UNCHANGED <<cmds, server_vars>>

\* Phase p has come to its end; the mice are skipped unless there are any.
Leave(p) ==
    LET q == PhaseAfter(p)
    IN Enter(IF q = "reattach_mice" /\ ~MiceToReattach THEN PhaseAfter(q) ELSE q)

\* setup_players is called (GTK: finish_setup runs on the UI thread) and
\* cleanup_extra_masters reads the extra masters.
StartSetup ==
    /\ pc = "assign"
    /\ ~ractive
    /\ Enter(SetupPhases[1])
    /\ SetupFrame

\* One turn of cleanup_extra_masters' loop, or its end.
CleanupStep(ok) ==
    /\ pc = "cleanup"
    /\ IF todo = <<>>
       THEN ok /\ Leave("cleanup")
       ELSE LET pointer == todo[1][1]
                prefix == MasterPrefix(pointer)
            IN IF ToBeRemoved(prefix, MastersToKeep(names))
               THEN /\ Run(CleanupRemoval(pointer), prefix, ok)
                    /\ IF ok
                       THEN /\ todo' = Tail(todo)
                            /\ out' = <<"removing">>
                            /\ UNCHANGED <<pc, idx, last_ok_names>>
                       ELSE Fail
               ELSE /\ ok
                    /\ todo' = Tail(todo)
                    /\ UNCHANGED <<pc, idx, out, cmds, last_ok_names, server_vars>>
    /\ SetupFrame

\* One turn of the loop that creates the masters, or its end.
CreateStep(ok) ==
    /\ pc = "create"
    /\ IF idx > Len(names)
       THEN ok /\ Leave("create")
       ELSE IF UsesCorePair(idx)
       THEN /\ ok
            /\ idx' = idx + 1
            /\ out' = <<"uses the core pair">>
            /\ UNCHANGED <<pc, todo, cmds, last_ok_names, server_vars>>
       ELSE IF ExistingMaster(devices, names[idx]) # <<>>
       THEN /\ ok
            /\ idx' = idx + 1
            /\ out' = <<"master already exists">>
            /\ UNCHANGED <<pc, todo, cmds, last_ok_names, server_vars>>
       ELSE /\ Run(create_master(names[idx]), names[idx], ok)
            /\ IF ok
               THEN /\ idx' = idx + 1
                    /\ out' = <<"creating">>
                    /\ UNCHANGED <<pc, todo, last_ok_names>>
               ELSE Fail
    /\ SetupFrame

\* One turn of a reattachment loop over the items of a claim map: the first
\* item goes to the core master, the others to the master find names.
ReattachTurn(items, core_id, kind, ok) ==
    LET player_name == items[idx][1]
        device_id == items[idx][2]
        found == IF kind = "keyboard"
                 THEN find_master_keyboard_by_name(devices, player_name)
                 ELSE find_master_pointer_by_name(devices, player_name)
    IN IF ~IsFirstItem(idx) /\ found = <<>>
       THEN /\ ok
            /\ idx' = idx + 1
            /\ out' = <<"could not find master">>
            /\ UNCHANGED <<pc, todo, cmds, last_ok_names, server_vars>>
       ELSE /\ Run(reattach_device(device_id,
                                   IF IsFirstItem(idx) THEN core_id
                                   ELSE found[1].deviceid),
                   player_name, ok)
            /\ IF ok
               THEN /\ idx' = idx + 1
                    /\ out' = <<"reattaching">>
                    /\ UNCHANGED <<pc, todo, last_ok_names>>
               ELSE Fail

ReattachKeyboardStep(ok) ==
    /\ pc = "reattach_keyboards"
    /\ IF idx > Len(player_keyboards)
       THEN ok /\ Leave("reattach_keyboards")
       ELSE ReattachTurn(player_keyboards, VIRTUAL_CORE_KEYBOARD, "keyboard", ok)
    /\ SetupFrame

ReattachMouseStep(ok) ==
    /\ pc = "reattach_mice"
    /\ IF idx > Len(player_mice)
       THEN ok /\ Leave("reattach_mice")
       ELSE ReattachTurn(player_mice, VIRTUAL_CORE_POINTER, "pointer", ok)
    /\ SetupFrame

(***************************************************************************)
(* main.py: the assignment written out in main() and in its finish_setup   *)
(***************************************************************************)
\* The ids main.py writes as literals where core.py names constants.
MAIN_CORE_POINTER == 2
MAIN_CORE_KEYBOARD == 3

\* main.py's cleanup_extra_masters at the pair it looks at next: the command
\* it issues, if it issues one.
MainCleanupTurn(pairs, keep_names) ==
    IF pairs = <<>> THEN {}
    ELSE LET pointer == pairs[1][1]
         IN IF MasterPrefix(pointer) \notin Range(keep_names)
            THEN {remove_master(pointer.deviceid, MAIN_CORE_POINTER, MAIN_CORE_KEYBOARD)}
            ELSE {}

\* main.py's creation loop at position i of player_list.
MainCreateTurn(player_list, i) ==
    IF i \notin DOMAIN player_list THEN {}
    ELSE IF i = 1 THEN {}
    ELSE IF find_master_keyboard_by_name(devices, player_list[i]) # <<>> THEN {}
    ELSE {create_master(player_list[i])}

\* main.py's reattachment loops at item i of a claim map: master_id is the
\* literal for the first item, the id of the master found for the others.
MainReattachTurn(items, i, core_id, found) ==
    IF i \notin DOMAIN items THEN {}
    ELSE IF i = 1 THEN {reattach_device(items[i][2], core_id)}
    ELSE IF found # <<>> THEN {reattach_device(items[i][2], found[1].deviceid)}
    ELSE {}

\* The command main()'s console flow issues at turn i of its loop p.
MainAssignment(p, i) ==
    IF p = "cleanup" THEN MainCleanupTurn(todo, PyRest(names))
    ELSE IF p = "create" THEN MainCreateTurn(names, i)
    ELSE IF p = "reattach_keyboards"
    THEN MainReattachTurn(player_keyboards, i, MAIN_CORE_KEYBOARD,
            IF i \in DOMAIN player_keyboards
            THEN find_master_keyboard_by_name(devices, player_keyboards[i][1]) ELSE <<>>)
    ELSE IF p = "reattach_mice" /\ detect_mice
    THEN MainReattachTurn(player_mice, i, MAIN_CORE_POINTER,
            IF i \in DOMAIN player_mice
            THEN find_master_pointer_by_name(devices, player_mice[i][1]) ELSE <<>>)
    ELSE {}

\* The command finish_setup of main.py's window issues at turn i of its loop
\* p; "self.mice_check.get_active()" is detect_mice.
FinishSetupAssignment(p, i) ==
    IF p = "cleanup" THEN MainCleanupTurn(todo, PyRest(names))
    ELSE IF p = "create" THEN MainCreateTurn(names, i)
    ELSE IF p = "reattach_keyboards"
    THEN MainReattachTurn(player_keyboards, i, MAIN_CORE_KEYBOARD,
            IF i \in DOMAIN player_keyboards
            THEN find_master_keyboard_by_name(devices, player_keyboards[i][1]) ELSE <<>>)
    ELSE IF p = "reattach_mice" /\ detect_mice
    THEN MainReattachTurn(player_mice, i, MAIN_CORE_POINTER,
            IF i \in DOMAIN player_mice
            THEN find_master_pointer_by_name(devices, player_mice[i][1]) ELSE <<>>)
    ELSE {}

(***************************************************************************)
(* Reset to a single player: cleanup_extra_masters(dpy, [])                *)
(***************************************************************************)
\* XInput2GUI.cleanup_masters (the Reset button, sensitive at all times and
\* served when the UI thread is free) and Kodi's reset_to_single_player (from
\* the menu).
ResetStart ==
    /\ ~ractive
    /\ \/ fe = "gtk" /\ pc \in {"idle", "kbd", "mouse", "assign", "done", "failed"}
       \/ fe = "kodi" /\ pc \in {"idle", "done", "cancelled"}
    /\ ractive' = TRUE
    /\ rtodo' = get_extra_masters(devices)
    /\ rcmds' = <<>>
    /\ UNCHANGED <<fe, pc, names, detect_mice, cur, player_keyboards, player_mice,
                   already_assigned, slave_keyboard_ids, slave_pointer_ids, canceled,
                   out, ret, tick, cmds, todo, idx, last_ok_names, started, handshake, argv, waiting,
                   server_vars, watch_vars>>

\* One turn of the reset's loop, or its end. A failed command ends the
\* handler (GTK goes on, the Kodi script dies).
ResetStep(ok) ==
    /\ ractive
    /\ IF rtodo = <<>>
       THEN /\ ok
            /\ ractive' = FALSE
            /\ UNCHANGED <<rtodo, rcmds, pc, last_ok_names, server_vars>>
       ELSE LET cmd == CleanupRemoval(rtodo[1][1])
            IN /\ ok => CmdValid(devices, cmd)
               /\ rcmds' = Append(rcmds, Logged(cmd, MasterPrefix(rtodo[1][1]), "reset", ok))
               /\ devices' = IF ok THEN CmdEffect(devices, cmd) ELSE devices
               /\ last_ok_names' = NoNames
               /\ rtodo' = IF ok THEN Tail(rtodo) ELSE <<>>
               /\ ractive' = ok
               /\ pc' = IF ~ok /\ fe = "kodi" THEN "failed" ELSE pc
               /\ UNCHANGED spare
    /\ UNCHANGED <<fe, names, detect_mice, cur, player_keyboards, player_mice,
                   already_assigned, slave_keyboard_ids, slave_pointer_ids, canceled,
                   out, ret, tick, cmds, todo, idx, started, handshake, argv, waiting, watch_vars>>

FrontEnds == {"cli", "gtk", "kodi"}
MinPlayers == 0 - 1

Next ==
    \/ \E f \in FrontEnds, hs \in BOOLEAN : Launch(f, hs)
    \/ /\ started < MaxSessions
       /\ \E n \in MinPlayers .. MaxPlayers, c \in SeqsUpTo(CustomNames, MaxCustom),
             m \in BOOLEAN : StartCli(n, c, m)
    \/ /\ started < MaxSessions
       /\ \E n \in 1 .. MaxPlayers, m \in BOOLEAN : StartGtk(n, m)
    \/ /\ started < MaxSessions
       /\ \E n \in 1 .. MaxPlayers, m \in BOOLEAN : StartKodi(n, m)
    \/ \E e \in SessionEvents(devices) : KeyboardEvent(e)
    \/ \E e \in SessionEvents(devices) : MouseEvent(e)
    \/ KodiCancel
    \/ KodiPoll
    \/ Plug
    \/ StartSetup
    \/ \E ok \in BOOLEAN : CleanupStep(ok)
    \/ \E ok \in BOOLEAN : CreateStep(ok)
    \/ \E ok \in BOOLEAN : ReattachKeyboardStep(ok)
    \/ \E ok \in BOOLEAN : ReattachMouseStep(ok)
    \/ ResetStart
    \/ \E ok \in BOOLEAN : ResetStep(ok)

Spec == Init /\ [][Next]_vars

\* select() in the cancellable watchers returns after 0.2 s at the latest, so
\* a watcher that waits comes round to its cancellation check.
CancelSpec == Init /\ [][Next]_vars /\ WF_vars(KodiPoll)

(***************************************************************************)
(* main.py: the program run from the command line, run after run           *)
(***************************************************************************)
\* The values of the optional positional argument num_players.
NumPlayersArgs == {<<>>} \cup {<<n>> : n \in MinPlayers .. MaxPlayers}

MainInit ==
    /\ SessionIdle
    /\ WatchIdle
    /\ fe = "cli"
    /\ devices = InitialDevices

MainNext ==
    \/ \E g \in BOOLEAN, n \in NumPlayersArgs, hs \in BOOLEAN :
          Main([gui |-> g, num_players |-> n], hs)
    \/ /\ started < MaxSessions
       /\ \E n \in MinPlayers .. MaxPlayers, c \in SeqsUpTo(CustomNames, MaxCustom),
             m \in BOOLEAN : StartCli(n, c, m)
    \/ /\ started < MaxSessions
       /\ \E n \in 1 .. MaxPlayers, m \in BOOLEAN : StartGtk(n, m)
    \/ \E e \in SessionEvents(devices) : KeyboardEvent(e)
    \/ \E e \in SessionEvents(devices) : MouseEvent(e)
    \/ StartSetup
    \/ \E ok \in BOOLEAN : CleanupStep(ok)
    \/ \E ok \in BOOLEAN : CreateStep(ok)
    \/ \E ok \in BOOLEAN : ReattachKeyboardStep(ok)
    \/ \E ok \in BOOLEAN : ReattachMouseStep(ok)
    \/ ResetStart
    \/ \E ok \in BOOLEAN : ResetStep(ok)

MainSpec == MainInit /\ [][MainNext]_vars

(***************************************************************************)
(* The console on its own, on displays with few keyboards                  *)
(***************************************************************************)
\* A display with k physical keyboards.
DisplayWith(k) ==
    PlugAll(PlugAll(CoreDevices, KeyboardWords, SLAVE_KEYBOARD, k),
            MouseWords, SLAVE_POINTER, NumMice)

\* The ids a physical keyboard can have on these displays: those after the
\* core devices, up to the last device that can be plugged in.
ConsoleKeyboardIds == 6 .. (5 + NumKeyboards + NumMice + NumSpare)

ConsoleInit ==
    /\ SessionIdle
    /\ WatchIdle
    /\ fe = "cli"
    /\ devices \in {DisplayWith(k) : k \in 0 .. NumKeyboards}

\* The Enter key is pressed on keyboard k, which the console accepts and has
\* not recorded for a player yet.
EnterPressed(k) ==
    /\ fe = "cli"
    /\ k \in slave_keyboard_ids \ already_assigned
    /\ KeyboardEvent(RawEvent("RawKeyPress", k, 0, ENTER_KEYCODE))

ConsoleNext ==
    \/ /\ started < MaxSessions
       /\ \E n \in MinPlayers .. MaxPlayers, c \in SeqsUpTo(CustomNames, MaxCustom),
             m \in BOOLEAN : StartCli(n, c, m)
    \/ \E e \in SessionEvents(devices) : KeyboardEvent(e)
    \/ \E e \in SessionEvents(devices) : MouseEvent(e)
    \/ Plug
    \/ StartSetup
    \/ \E ok \in BOOLEAN : CleanupStep(ok)
    \/ \E ok \in BOOLEAN : CreateStep(ok)
    \/ \E ok \in BOOLEAN : ReattachKeyboardStep(ok)
    \/ \E ok \in BOOLEAN : ReattachMouseStep(ok)

\* wait_for_enter_key blocks in next_event and the selection of raw key
\* presses stays in place from prompt to prompt, so a press the server reports
\* reaches the loop; every keyboard the console accepts and has not recorded
\* yet is taken to press Enter sooner or later.
ConsoleSpec ==
    /\ ConsoleInit
    /\ [][ConsoleNext]_vars
    /\ \A k \in ConsoleKeyboardIds : WF_vars(EnterPressed(k))

(***************************************************************************)
(* The GTK window on its own, session after session                        *)
(***************************************************************************)
GtkInit ==
    /\ SessionIdle
    /\ WatchIdle
    /\ fe = "gtk"
    /\ devices = InitialDevices

GtkNext ==
    \/ /\ started < MaxGtkSessions
       /\ \E n \in 1 .. MaxPlayers, m \in BOOLEAN : StartGtk(n, m)
    \/ \E e \in SessionEvents(devices) : KeyboardEvent(e)
    \/ \E e \in SessionEvents(devices) : MouseEvent(e)
    \/ StartSetup
    \/ \E ok \in BOOLEAN : CleanupStep(ok)
    \/ \E ok \in BOOLEAN : CreateStep(ok)
    \/ \E ok \in BOOLEAN : ReattachKeyboardStep(ok)
    \/ \E ok \in BOOLEAN : ReattachMouseStep(ok)
    \/ ResetStart
    \/ \E ok \in BOOLEAN : ResetStep(ok)

GtkSpec == GtkInit /\ [][GtkNext]_vars

(***************************************************************************)
(* setup_players and the reset on their own, run after run on one display  *)
(***************************************************************************)
\* The claim map the detection loop leaves when the devices it accepts for
\* the players of player_list are ids, in this order.
RECURSIVE ClaimsOf(_, _, _)
ClaimsOf(player_list, ids, n) ==
    IF n = 0 THEN <<>>
    ELSE DictSet(ClaimsOf(player_list, ids, n - 1), player_list[n], ids[n])

\* The sequences of n different members of S.
RECURSIVE InjSeqs(_, _)
InjSeqs(S, n) ==
    IF n = 0 THEN {<<>>}
    ELSE UNION {{Append(s, x) : x \in S \ Range(s)} : s \in InjSeqs(S, n - 1)}

\* What an earlier session for three players (the last two Ann and Player2)
\* left behind, the first player's keyboard unplugged since: the master pairs
\* "Ann" and "Player2", each with the keyboard its player claimed.
LeftOverPairs ==
    LET created == CreateMasterEffect(CreateMasterEffect(InitialDevices, <<"Ann">>),
                                      <<"Player2">>)
        keyboards == get_slave_keyboards(InitialDevices)
        first == ReattachEffect(created, keyboards[2].deviceid,
                    find_master_keyboard_by_name(created, <<"Ann">>)[1].deviceid)
    IN ReattachEffect(first, keyboards[3].deviceid,
                      find_master_keyboard_by_name(created, <<"Player2">>)[1].deviceid)

SetupInit ==
    /\ SessionIdle
    /\ WatchIdle
    /\ fe = "cli"
    /\ devices \in {InitialDevices, LeftOverPairs}

\* The console front end is run and its detection loops come to their end:
\* the players have signalled with the keyboards ks and the mice ms.
Detected(num_players, player_names, mice, ks, ms) ==
    LET nm == GenerateNames(num_players, player_names)
    IN /\ fe = "cli"
       /\ pc = "idle"
       /\ ~ractive
       /\ Len(ks) = Len(nm)
       /\ Len(ms) = IF mice THEN Len(nm) ELSE 0
       /\ names' = nm
       /\ detect_mice' = mice
       /\ cur' = Len(nm) + 1
       /\ player_keyboards' = ClaimsOf(nm, ks, Len(nm))
       /\ player_mice' = ClaimsOf(nm, ms, Len(ms))
       /\ pc' = "assign"
       /\ out' = <<"assigning">>
       /\ cmds' = <<>>
       /\ todo' = <<>>
       /\ idx' = 1
       /\ UNCHANGED <<fe, already_assigned, slave_keyboard_ids, slave_pointer_ids,
                      canceled, ret, tick, rtodo, rcmds, ractive, last_ok_names,
                      started, handshake, argv, waiting, server_vars, watch_vars>>

SetupNext ==
    \/ \E f \in {"cli", "kodi"}, hs \in BOOLEAN : Launch(f, hs)
    \/ \E n \in MinPlayers .. MaxPlayers, c \in SeqsUpTo(CustomNames, MaxCustom),
          m \in BOOLEAN :
          \E ks \in InjSeqs(get_slave_keyboard_ids(devices), Len(GenerateNames(n, c))),
             ms \in InjSeqs(get_slave_pointer_ids(devices),
                            IF m THEN Len(GenerateNames(n, c)) ELSE 0) :
             Detected(n, c, m, ks, ms)
    \/ StartSetup
    \/ \E ok \in BOOLEAN : CleanupStep(ok)
    \/ \E ok \in BOOLEAN : CreateStep(ok)
    \/ \E ok \in BOOLEAN : ReattachKeyboardStep(ok)
    \/ \E ok \in BOOLEAN : ReattachMouseStep(ok)
    \/ ResetStart
    \/ \E ok \in BOOLEAN : ResetStep(ok)

SetupSpec == SetupInit /\ [][SetupNext]_vars

(***************************************************************************)
(* Properties                                                              *)
(***************************************************************************)
Last(s) == s[Len(s)]
Physical(d) == ~IsMaster(d) /\ ~HasWord(d.name, "XTEST")
SetupRunning == pc \in Range(SetupPhases)

\* The device id is attached to a master of the given name.
AttachedTo(devs, id, master_name) ==
    \E d \in Range(devs), m \in Range(devs) :
        d.deviceid = id /\ m.deviceid = d.attachment /\ m.name = master_name

\* d[k] of a dict.
DictGet(d, k) == d[CHOOSE i \in DOMAIN d : d[i][1] = k][2]

InjectiveClaims(d) == \A i, j \in DOMAIN d : i # j => d[i][2] # d[j][2]

\* C1: in every state of a session of any front end, no slave keyboard id is
\* recorded for two players in the keyboard claim map, and no slave pointer
\* id for two players in the mouse claim map.
C1_ClaimMapsInjective ==
    InjectiveClaims(player_keyboards) /\ InjectiveClaims(player_mice)

\* Both keyboards are claimed, one mouse is, and the second player has just
\* clicked the mouse the first player holds.
C1_Witness ==
    /\ pc = "mouse"
    /\ Len(player_keyboards) = 2
    /\ Len(player_mice) = 1
    /\ out[1] = "already assigned"
    /\ ret \in DictValues(player_mice)

\* C2: wait_for_enter_key and wait_for_mouse_click return only ids of the
\* acceptable set they were given (the id of the device the event came from);
\* an event of a device outside the set is consumed and the wait goes on.
C2_OnlyAcceptableIds ==
    /\ w_pc = "returned" => (w_ret \in w_ids /\ w_ret = w_ev.src)
    /\ (w_ev # NoEvent /\ w_ev.src \notin w_ids) =>
          (w_pc = "waiting" /\ w_ret = NoReturn)

\* Enter arrived as a raw key press of the master keyboard, which is not in
\* the set, and the watcher waits on.
C2_Witness ==
    /\ w_kind = "key"
    /\ w_pc = "waiting"
    /\ w_ids # {}
    /\ w_ev.evtype = "RawKeyPress"
    /\ w_ev.detail = ENTER_KEYCODE
    /\ w_ev.src = VIRTUAL_CORE_KEYBOARD
    /\ VIRTUAL_CORE_KEYBOARD \notin w_ids

\* C3: wait_for_enter_key returns only on a raw key press with keycode 36; a
\* raw key press with another keycode from an acceptable keyboard leaves it
\* waiting; wait_for_mouse_click returns on every raw button press of an
\* acceptable pointer, whatever the button.
C3_ConfirmKeyAnyButton ==
    /\ (w_kind = "key" /\ w_pc = "returned") =>
          (w_ev.evtype = "RawKeyPress" /\ w_ev.detail = 36)
    /\ (w_kind = "key" /\ w_ev.evtype = "RawKeyPress" /\ w_ev.src \in w_ids
          /\ w_ev.detail # 36) => w_pc = "waiting"
    /\ (w_kind = "button" /\ w_ev.evtype = "RawButtonPress" /\ w_ev.src \in w_ids) =>
          (w_pc = "returned" /\ w_ret = w_ev.src)

\* A key other than Enter (keycode 292, which is 36 in its low byte) was
\* pressed on an acceptable keyboard and the watcher waits on.
C3_Witness ==
    /\ w_kind = "key"
    /\ w_pc = "waiting"
    /\ w_ev.evtype = "RawKeyPress"
    /\ w_ev.src \in w_ids
    /\ w_ev.detail = 292

\* C4: when the watcher returns an id claimed earlier in the session, the
\* claim maps and the "seen" set stay as they are, the player does not
\* advance, the user is told and the same player is asked again (in Kodi the
\* wizard ends instead when a cancellation is pending), and no external
\* command is issued.
C4_RejectionLeavesSession ==
    [][(/\ tick' # tick
        /\ ret' \in already_assigned \cup
                    DictValues(IF pc = "kbd" THEN player_keyboards ELSE player_mice))
       => /\ UNCHANGED <<player_keyboards, player_mice, already_assigned, cur, names,
                         cmds, rcmds, devices>>
          /\ pc' = pc \/ (fe = "kodi" /\ canceled /\ pc' = "cancelled")
          /\ out'[1] = "already assigned"]_vars

\* The second player has just pressed Enter on the first player's keyboard.
C4_Witness ==
    /\ pc = "kbd"
    /\ cur = 2
    /\ out[1] = "already assigned"
    /\ ret \in DictValues(player_keyboards)
    /\ Len(player_keyboards) = 1

AllClaimed(d) == \A i \in DOMAIN names : names[i] \in DictKeys(d)

\* C5: the session issues no external command before every player of the
\* list has a claimed keyboard and, with mouse detection, a claimed pointer;
\* all keyboards are claimed before the first mouse prompt; the console and
\* the Kodi wizard run no reset while a session is detecting.
C5_CommandsAfterClaims ==
    /\ (cmds # <<>> \/ SetupRunning) =>
          (AllClaimed(player_keyboards) /\ (detect_mice => AllClaimed(player_mice)))
    /\ (pc = "mouse" \/ player_mice # <<>>) => AllClaimed(player_keyboards)
    /\ (fe # "gtk" /\ pc \in {"kbd", "mouse", "assign"}) => ~ractive

\* A two-player session with mice has removed a master, created one and
\* reattached the claimed devices.
C5_Witness ==
    /\ pc = "done"
    /\ detect_mice
    /\ Len(names) = 2
    /\ \E i, j, k \in DOMAIN cmds :
          /\ cmds[i].op = "remove-master"
          /\ cmds[j].op = "create-master"
          /\ cmds[k].op = "reattach"

CleanupOver == pc \in {"create", "reattach_keyboards", "reattach_mice", "done"}

\* C6 (as the code has it): setup_players removes an extra master pair if and
\* only if its name is not the name of a player at positions 2..N: it issues
\* a removal for no pair named after such a player, and once the cleanup has
\* run to its end every extra pair left is named after one.
C6_RemovedIffNotKept ==
    /\ \A i \in DOMAIN cmds :
          cmds[i].op = "remove-master" => cmds[i].about \notin Range(PyRest(names))
    /\ CleanupOver =>
          \A i \in DOMAIN get_extra_masters(devices) :
              MasterPrefix(get_extra_masters(devices)[i][1]) \in Range(PyRest(names))

\* C6 as stated: a pair is removed only if its name is not in the player list.
C6_RemovedOnlyIfNotInList ==
    \A i \in DOMAIN cmds :
        (cmds[i].op = "remove-master" /\ cmds[i].ok) => cmds[i].about \notin Range(names)

\* The cleanup has removed the pair named after the first player and kept
\* the pair named after the second.
C6_Witness ==
    /\ pc = "create"
    /\ Len(names) = 2
    /\ Len(cmds) = 1
    /\ cmds[1].op = "remove-master"
    /\ cmds[1].ok
    /\ cmds[1].about = names[1]
    /\ find_master_keyboard_by_name(devices, names[2]) # <<>>

\* The removal the step has issued, if it has issued one.
RemovalIssued(before, after) ==
    IF Len(after) = Len(before) + 1 /\ Last(after).op = "remove-master"
    THEN {Last(after)} ELSE {}

\* C7: every removal the cleanup issues (in setup_players and in a reset)
\* names ids 2 and 3 as fallbacks; when it succeeds every physical slave of
\* the removed pair is attached to "Virtual core pointer" (pointers) or
\* "Virtual core keyboard" (keyboards), and every other physical slave is
\* attached where it was.
C7_OrphansToDefaultPair ==
    [][\A e \in RemovalIssued(cmds, cmds') \cup RemovalIssued(rcmds, rcmds') :
          /\ e.b = 2
          /\ e.c = 3
          /\ e.ok =>
               LET pair == {e.a, DeviceById(devices, e.a).attachment}
               IN \A d \in Range(devices) : Physical(d) =>
                     \E d2 \in Range(devices') :
                        /\ d2.deviceid = d.deviceid
                        /\ d2.name = d.name
                        /\ IF d.attachment \in pair
                           THEN AttachedTo(devices', d.deviceid,
                                    IF d.use = SLAVE_POINTER
                                    THEN <<"Virtual", "core", "pointer">>
                                    ELSE <<"Virtual", "core", "keyboard">>)
                           ELSE d2.attachment = d.attachment]_vars

\* The cleanup has just removed the pair "Player2"; a keyboard is back on
\* the core keyboard and another is still on the master that was kept.
C7_Witness ==
    /\ pc = "cleanup"
    /\ cmds # <<>>
    /\ Last(cmds).op = "remove-master"
    /\ Last(cmds).ok
    /\ Last(cmds).about = <<"Player2">>
    /\ \E k \in Range(devices) :
          /\ Physical(k)
          /\ k.use = SLAVE_KEYBOARD
          /\ k.attachment = VIRTUAL_CORE_KEYBOARD
    /\ \E k \in Range(devices) :
          /\ Physical(k)
          /\ k.use = SLAVE_KEYBOARD
          /\ AttachedTo(devices, k.deviceid, <<"Ann", "keyboard">>)

NoDuplicateMasters ==
    \A i, j \in DOMAIN devices :
        (i # j /\ IsMaster(devices[i]) /\ IsMaster(devices[j])) =>
            devices[i].name # devices[j].name

\* C8: across every sequence of setup sessions and resets no two masters
\* have the same name, and a run of setup_players with the player list of
\* the run that returned last (nothing having changed the masters since)
\* issues no create-master.
C8_CreationIdempotent ==
    /\ []NoDuplicateMasters
    /\ [][(last_ok_names = names /\ Len(cmds') = Len(cmds) + 1)
             => Last(cmds').op # "create-master"]_vars

\* A second run with the same two players is past its creation loop.
C8_Witness ==
    /\ pc = "reattach_keyboards"
    /\ last_ok_names = names
    /\ Len(names) = 2
    /\ find_master_keyboard_by_name(devices, names[2]) # <<>>

\* C9: in every run of setup_players every remove-master comes before every
\* create-master, so no pair the run created is removed by its cleanup.
C9_RemovalsBeforeCreations ==
    \A i, j \in DOMAIN cmds :
        (cmds[i].op = "create-master" /\ cmds[j].op = "remove-master") => j < i

\* A run that removed a pair and then created one has returned.
C9_Witness ==
    /\ pc = "done"
    /\ \E i, j \in DOMAIN cmds :
          /\ i < j
          /\ cmds[i].op = "remove-master" /\ cmds[i].ok
          /\ cmds[j].op = "create-master" /\ cmds[j].ok

\* The claimed devices of claim map d are attached as C10 says.
Routed(d, kind, core_name) ==
    \A i \in DOMAIN names :
        AttachedTo(devices, DictGet(d, names[i]),
                   IF i = 1 THEN core_name ELSE names[i] \o <<kind>>)

\* C10: when setup_players has returned, the first player's keyboard is
\* attached to the core keyboard and every other player P's keyboard to
\* "P keyboard"; with mouse detection likewise for the pointers.
C10_ClaimedDevicesRouted ==
    pc = "done" =>
        /\ Routed(player_keyboards, "keyboard", <<"Virtual", "core", "keyboard">>)
        /\ detect_mice => Routed(player_mice, "pointer", <<"Virtual", "core", "pointer">>)

\* The command the step has issued from setup_players, if it has issued one.
Issued(before, after) ==
    IF Len(after) = Len(before) + 1 THEN {Last(after)} ELSE {}

\* C11 (as the code has it): every create-master is issued for a player at
\* positions 2..N of the list and carries that player's name; none is issued
\* for the player at position 1.
C11_CreatedForLaterPlayers ==
    [][\A e \in Issued(cmds, cmds') :
          e.op = "create-master" =>
              /\ pc = "create"
              /\ idx \in 2 .. Len(names)
              /\ e.name = names[idx]]_vars

\* C11 as stated: no create-master carries the first player's name.
C11_NeverFirstPlayersName ==
    \A i \in DOMAIN cmds :
        cmds[i].op = "create-master" => cmds[i].name # names[1]

\* A pair has been created for the second player, whose name is also the
\* first player's.
C11_Witness ==
    /\ Len(names) = 2
    /\ names[1] = names[2]
    /\ cmds # <<>>
    /\ Last(cmds).op = "create-master"
    /\ Last(cmds).ok
    /\ find_master_keyboard_by_name(devices, names[1]) # <<>>

\* C12: when a command of the assignment exits non-zero it is the last
\* command the session issues, the session is over without the front end
\* reporting that the setup is complete, and a session that reports
\* completion has had every command succeed.
C12_FailureStopsSession ==
    /\ \A i \in DOMAIN cmds :
          ~cmds[i].ok => (i = Len(cmds) /\ pc = "failed" /\ out # <<"complete">>)
    /\ (out = <<"complete">> \/ pc = "done") => \A i \in DOMAIN cmds : cmds[i].ok

\* The removal succeeded, create-master failed, and the reattachments of the
\* two claimed keyboards were never issued.
C12_Witness ==
    /\ pc = "failed"
    /\ Len(cmds) = 2
    /\ cmds[1].op = "remove-master" /\ cmds[1].ok
    /\ cmds[2].op = "create-master" /\ ~cmds[2].ok
    /\ Len(player_keyboards) = 2

IsXTest(id) == \E d \in Range(devices) : d.deviceid = id /\ HasWord(d.name, "XTEST")

\* C13: in every front end the acceptable-id sets the watchers are given
\* hold no device whose name contains XTEST, and no such device is recorded
\* in a claim map.
C13_NoXTestDevice ==
    \A id \in slave_keyboard_ids \cup slave_pointer_ids
              \cup DictValues(player_keyboards) \cup DictValues(player_mice) :
        ~IsXTest(id)

\* GTK has enumerated keyboards and pointers anew on a display that has the
\* XTEST slaves of the core pair and of the pair Ann, and a keyboard is
\* claimed.
C13_Witness ==
    /\ fe = "gtk"
    /\ pc = "mouse"
    /\ slave_keyboard_ids # {}
    /\ slave_pointer_ids # {}
    /\ player_keyboards # <<>>
    /\ \E d \in Range(devices) :
          /\ d.name = <<"Ann", "XTEST", "keyboard">>
          /\ d.use = SLAVE_KEYBOARD
    /\ \E d \in Range(devices) :
          /\ d.name = <<"Virtual", "core", "XTEST", "pointer">>
          /\ d.use = SLAVE_POINTER

\* A step in which the front end queries the devices, has a watcher wait or
\* return, or issues an external command.
Operation ==
    \/ started' # started
    \/ tick' # tick
    \/ cmds' # cmds /\ cmds' # <<>>
    \/ rcmds' # rcmds
    \/ ractive' # ractive
    \/ pc' # pc /\ pc' \notin {"idle", "nodisplay"}

\* C14: in every front end a device query, an event wait or an external
\* command happens only after the handshake of that run has succeeded; when
\* the handshake (or opening the display) fails the run is over and none of
\* them happens in it.
C14_HandshakeFirst ==
    /\ [](handshake # "ok" => (pc = "nodisplay" /\ cmds = <<>> /\ ~ractive
                               /\ slave_keyboard_ids = {} /\ slave_pointer_ids = {}
                               /\ ret = NoReturn))
    /\ [][Operation => (handshake = "ok" /\ handshake' = "ok")]_vars

\* Kodi could not open the display or get the version: it has told the user
\* and returned.
C14_Witness ==
    /\ fe = "kodi"
    /\ handshake = "failed"
    /\ pc = "nodisplay"
    /\ out = <<"error">>

KodiWaitsCancelled == fe = "kodi" /\ canceled /\ pc \in {"kbd", "mouse"}

\* C15 (as the code has it): when the cancellation predicate is true while a
\* cancellable watcher waits, the wait ends, whether or not an event
\* arrives: the next thing the watcher does ends it. It returns None after
\* the poll timeout or after one more event that it does not accept, and the
\* device id when that one more event is an accepted one.
C15_CancelledWaitEnds ==
    /\ KodiWaitsCancelled ~> pc \notin {"kbd", "mouse"}
    /\ [][(KodiWaitsCancelled /\ (tick' # tick \/ pc' # pc)) =>
             /\ pc' \notin {"kbd", "mouse"}
             /\ tick' = tick => (pc' = "cancelled" /\ out' = <<>>)]_vars

\* C15 as stated: the watcher eventually returns None.
C15_ReturnsNone ==
    KodiWaitsCancelled ~> (pc = "cancelled" /\ out = <<>>)

\* The cancellation came while the second player was asked for a keyboard,
\* and the watcher has returned None.
C15_Witness ==
    /\ fe = "kodi"
    /\ canceled
    /\ pc = "cancelled"
    /\ out = <<>>
    /\ Len(player_keyboards) = 1
    /\ cur = 2

SessionInProgress ==
    pc \in {"kbd", "mouse", "assign", "cleanup", "create", "reattach_keyboards",
            "reattach_mice"}

\* C16: in the GTK front end at most one background thread is blocked in
\* wait_for_enter_key or wait_for_mouse_click at any time (one while a device
\* is waited for, none otherwise), and no session is started while one is in
\* progress.
C16_OneWaitAtATime ==
    /\ [](/\ waiting \in {0, 1}
          /\ waiting = 1 <=> pc \in {"kbd", "mouse"})
    /\ [][started' # started => (~SessionInProgress /\ waiting = 0)]_vars

\* The window's second session waits for the second player's mouse.
C16_Witness ==
    /\ fe = "gtk"
    /\ started = 2
    /\ waiting = 1
    /\ pc = "mouse"
    /\ Len(player_mice) = 1
    /\ last_ok_names # NoNames

\* C17: while a GTK background thread waits for a device no UI-thread handler
\* runs that queries the display or issues external commands: no reset is
\* under way, and no command is issued.
C17_DetectionUndisturbed ==
    /\ []((fe = "gtk" /\ waiting > 0) => ~ractive)
    /\ [][(fe = "gtk" /\ waiting > 0) => (rcmds' = rcmds /\ devices' = devices)]_vars

\* C18: when main() is run with the GUI flag the GUI is launched whatever
\* num_players is, absent included; when it is run without the flag and
\* without num_players the run ends with the argument error (exit status 2)
\* and has not opened the display, waited for an event or issued a command.
C18_Dispatch ==
    /\ []((argv # <<>> /\ argv[1].gui) => (fe = "gtk" /\ pc # "usage" /\ handshake # "none"))
    /\ []((argv # <<>> /\ ~argv[1].gui /\ argv[1].num_players = <<>>) =>
             /\ pc = "usage"
             /\ out = <<"usage", "exit 2">>
             /\ handshake = "none"
             /\ cmds = <<>>
             /\ ret = NoReturn
             /\ slave_keyboard_ids = {} /\ slave_pointer_ids = {}
             /\ ~ractive /\ waiting = 0)
    /\ [][pc' = "usage" => (rcmds' = rcmds /\ devices' = devices /\ tick' = tick)]_vars

\* A run without arguments, after a run with --gui whose session came to its
\* end.
C18_Witness ==
    /\ pc = "usage"
    /\ argv = <<[gui |-> FALSE, num_players |-> <<>>]>>
    /\ last_ok_names = DefaultNames(2)
    /\ get_extra_masters(devices) # <<>>

\* A player's turn to signal with a keyboard, or with a mouse, begins.
KeyboardPromptStep == pc' = "kbd" /\ (started' # started \/ cur' # cur)
MousePromptStep == pc' = "mouse" /\ (pc = "kbd" \/ cur' # cur)

\* C19: in every front end the acceptable ids a player's detection uses are
\* those of the device list as it is when the player is prompted, so that a
\* slave keyboard plugged in before the prompt is among them.
C19_LiveIdsAtPrompt ==
    [][/\ KeyboardPromptStep => slave_keyboard_ids' = get_slave_keyboard_ids(devices')
       /\ MousePromptStep => slave_pointer_ids' = get_slave_pointer_ids(devices')]_vars

\* Every item of claim map d has been reattached by a command that succeeded.
Reattached(d) ==
    \A i \in DOMAIN d :
        \E j \in DOMAIN cmds :
            /\ cmds[j].op = "reattach"
            /\ cmds[j].a = d[i][2]
            /\ cmds[j].about = d[i][1]
            /\ cmds[j].ok

\* C20: when setup_players has returned normally, a reattach command has been
\* issued for every item of the keyboard claim map, and of the mouse claim
\* map when it was given: completion is never reported with a claimed device
\* skipped.
C20_EveryClaimReattached ==
    (pc = "done" \/ out = <<"complete">>) =>
        /\ Reattached(player_keyboards)
        /\ MiceToReattach => Reattached(player_mice)

\* setup_players has returned for two players with mice where the second
\* player's master pair was there already: nothing was created, and the four
\* claimed devices were reattached.
C20_Witness ==
    /\ pc = "done"
    /\ Len(player_keyboards) = 2
    /\ Len(player_mice) = 2
    /\ detect_mice
    /\ \A j \in DOMAIN cmds : cmds[j].op # "create-master"
    /\ Cardinality({j \in DOMAIN cmds : cmds[j].op = "reattach"}) = 4

HasKey(d, k) == \E i \in DOMAIN d : d[i][1] = k

\* C21: when the console's detection is over the keyboard claim map has one
\* entry for each position of the player list, and the entry of a position is
\* the device accepted at that position's prompt: a claim records the device
\* returned for the player prompted and leaves the entries of the players
\* before alone.
C21_OneEntryPerPosition ==
    /\ []((fe = "cli" /\ pc = "assign") => Len(player_keyboards) = Len(names))
    /\ [][(fe = "cli" /\ pc = "kbd" /\ player_keyboards' # player_keyboards) =>
             /\ DictGet(player_keyboards', names[cur]) = ret'
             /\ \A j \in 1 .. cur - 1 :
                   /\ HasKey(player_keyboards, names[j])
                   /\ DictGet(player_keyboards', names[j]) =
                         DictGet(player_keyboards, names[j])]_vars

\* The player list asked for with num_players = n and the custom names c: the
\* custom names first, "Player<i>" for the positions they do not reach.
NamesAskedFor(n, c) ==
    [i \in 1 .. n |-> IF i <= Len(c) THEN c[i] ELSE <<PlayerWords[i]>>]

\* C22: the player list the console generates for num_players = N has N
\* entries (none for an N below 1), and for some list of custom names it is
\* those names for the positions they reach and "Player<i>" for the others.
C22_NamesAsAskedFor ==
    [][(fe = "cli" /\ argv # <<>> /\ started' # started) =>
          LET N == argv[1].num_players[1]
          IN /\ Len(names') = Max(N, 0)
             /\ \E c \in SeqsUpTo(CustomNames, MaxCustom) : names' = NamesAskedFor(N, c)]_vars

\* C23: when setup_players has returned, the only physical slave keyboard
\* attached to the master keyboard of a player at positions 2..N is the one
\* that player claimed in the session.
C23_OnlyTheClaimedKeyboard ==
    pc = "done" =>
        \A i \in 2 .. Len(names) :
            \A k \in Range(devices) :
                (/\ Physical(k)
                 /\ k.use = SLAVE_KEYBOARD
                 /\ AttachedTo(devices, k.deviceid, names[i] \o <<"keyboard">>))
                => k.deviceid = DictGet(player_keyboards, names[i])

\* A step of the Kodi wizard taken with the cancellation pending, other than
\* the acceptance of the last device asked for, after which the wizard has no
\* check left: the step comes to one of the checks of the predicate.
CancellationObserved ==
    /\ fe = "kodi"
    /\ canceled
    /\ pc \in {"kbd", "mouse"}
    /\ pc' # pc \/ tick' # tick \/ out' # out
    /\ pc' # "assign"

\* C24: when the Kodi wizard observes the cancellation (before a prompt, in a
\* wait, between players) it returns without calling setup_players: no
\* command is issued and the device list is left as it was.
C24_CancelledWizardLeavesDevices ==
    /\ []((fe = "kodi" /\ pc = "cancelled") => cmds = <<>>)
    /\ [][CancellationObserved =>
             /\ pc' = "cancelled"
             /\ cmds' = <<>> /\ rcmds' = rcmds /\ ~ractive'
             /\ devices' = devices]_vars

\* The cancellation is observed between the last keyboard and the first
\* mouse, on a display with a left-over master pair.
C24_Witness ==
    /\ fe = "kodi"
    /\ pc = "cancelled"
    /\ canceled
    /\ detect_mice
    /\ Len(player_keyboards) = 2
    /\ player_mice = <<>>
    /\ out = <<"detected">>
    /\ devices = LeftOverDevices

\* The command of a log entry.
Command(e) == [op |-> e.op, name |-> e.name, a |-> e.a, b |-> e.b, c |-> e.c]

\* A turn of a loop of setup_players, or the end of the loop.
SetupTurn == idx' # idx \/ todo' # todo \/ pc' # pc \/ cmds' # cmds

\* C25: from the same device list, player list and claim maps the assignment
\* written out in main.py (console flow, finish_setup) issues the commands of
\* core.setup_players, with the same arguments, in the same order: at every
\* turn of every loop the command setup_players issues is the one the
\* written-out flow issues at that turn, and where setup_players passes the
\* mouse loop by the written-out flow has no mouse to reattach.
C25_InlineIssuesTheSame ==
    /\ [][(pc \in Range(SetupPhases) /\ fe \in {"cli", "gtk"} /\ SetupTurn) =>
             /\ {Command(e) : e \in Issued(cmds, cmds')} = MainAssignment(pc, idx)
             /\ {Command(e) : e \in Issued(cmds, cmds')} = FinishSetupAssignment(pc, idx)]_vars
    /\ []((pc = "done" /\ ~MiceToReattach /\ fe \in {"cli", "gtk"}) =>
             \A i \in DOMAIN player_mice :
                 /\ MainAssignment("reattach_mice", i) = {}
                 /\ FinishSetupAssignment("reattach_mice", i) = {})

\* A console run has removed a left-over pair, created the second player's
\* and reattached two keyboards and two mice.
C25_Witness ==
    /\ fe = "cli"
    /\ pc = "done"
    /\ \E j \in DOMAIN cmds : cmds[j].op = "remove-master"
    /\ \E j \in DOMAIN cmds : cmds[j].op = "create-master"
    /\ Cardinality({j \in DOMAIN cmds : cmds[j].op = "reattach"}) = 4

\* C26: wait_for_enter_key_with_cancel returns a device id only for a raw
\* key-press event with keycode 36 of a device of its set, and
\* wait_for_mouse_click_with_cancel only for a raw button-press event of a
\* device of its set, as the core watchers do.
C26_SameEventsAsCore ==
    /\ (w_kind = "key" /\ w_pc = "returned") =>
          /\ w_ev.type = "GenericEvent" /\ w_ev.evtype = "RawKeyPress"
          /\ w_ev.detail = 36 /\ w_ev.src \in w_ids
          /\ w_ret = wait_for_enter_key(w_ev, w_ids)
    /\ (w_kind = "button" /\ w_pc = "returned") =>
          /\ w_ev.type = "GenericEvent" /\ w_ev.evtype = "RawButtonPress"
          /\ w_ev.src \in w_ids
          /\ w_ret = wait_for_mouse_click(w_ev, w_ids)

CoreNames == {<<"Virtual", "core", "pointer">>, <<"Virtual", "core", "keyboard">>}

\* C27: no remove-master command, of setup_players' cleanup or of a reset,
\* has a device of the default master pair as its target.
C27_CorePairNeverRemoved ==
    [][\A e \in Issued(cmds, cmds') \cup Issued(rcmds, rcmds') :
          e.op = "remove-master" =>
             /\ e.a \notin {VIRTUAL_CORE_POINTER, VIRTUAL_CORE_KEYBOARD}
             /\ \A d \in Range(devices) : d.deviceid = e.a => d.name \notin CoreNames]_vars

\* A reset has removed both left-over pairs and only the core pair is left.
C27_Witness ==
    /\ Len(rcmds) = 2
    /\ \A j \in DOMAIN rcmds : rcmds[j].op = "remove-master" /\ rcmds[j].ok
    /\ ~ractive
    /\ get_extra_masters(devices) = <<>>
    /\ \E d \in Range(devices) : d.deviceid = VIRTUAL_CORE_POINTER /\ d.name \in CoreNames
    /\ \E d \in Range(devices) : d.deviceid = VIRTUAL_CORE_KEYBOARD /\ d.name \in CoreNames

\* The core master a slave of this kind belongs to.
CoreMasterOf(d) == IF d.use = SLAVE_POINTER THEN VIRTUAL_CORE_POINTER ELSE VIRTUAL_CORE_KEYBOARD

OnCorePair(d) == ~IsMaster(d) /\ d.attachment = CoreMasterOf(d)

\* The reset's loop has come to its end and no command of it failed.
ResetCompletes == ractive /\ ~ractive' /\ rcmds' = rcmds

\* C28: when a reset (cleanup_extra_masters with the empty keep list) has run
\* to its end, the core pair is the only master pair; each removal of the
\* reset leaves the physical slaves of the removed pair on the core master of
\* their kind, and they stay there until the reset ends.
C28_ResetToSinglePlayer ==
    [][/\ ResetCompletes =>
             /\ get_extra_masters(devices') = <<>>
             /\ \A d \in Range(devices') : IsMaster(d) => d.name \in CoreNames
             /\ \A d \in Range(devices') : ~IsMaster(d) => OnCorePair(d)
       /\ \A e \in Issued(rcmds, rcmds') :
             e.op = "remove-master" /\ e.ok =>
                LET pair == {e.a, DeviceById(devices, e.a).attachment}
                IN \A d \in Range(devices) :
                      ~IsMaster(d) /\ d.attachment \in pair /\ ~HasWord(d.name, "XTEST") =>
                         \E n \in Range(devices') : n.deviceid = d.deviceid /\ OnCorePair(n)
       /\ ractive =>
             \A d \in Range(devices) : OnCorePair(d) /\ ~HasWord(d.name, "XTEST") =>
                \E n \in Range(devices') : n.deviceid = d.deviceid /\ OnCorePair(n)]_vars

\* A reset has removed the pairs "Ann" and "Player2" an earlier session left
\* behind, and the keyboard each of them held is on the core keyboard.
C28_Witness ==
    /\ ~ractive
    /\ Len(rcmds) = 2
    /\ rcmds[1].ok /\ rcmds[1].about = <<"Ann">>
    /\ rcmds[2].ok /\ rcmds[2].about = <<"Player2">>
    /\ \A d \in Range(devices) : IsMaster(d) => d.name \in CoreNames
    /\ \A k \in {2, 3} :
          /\ DeviceById(LeftOverPairs, get_slave_keyboards(InitialDevices)[k].deviceid).attachment
                \notin {VIRTUAL_CORE_POINTER, VIRTUAL_CORE_KEYBOARD}
          /\ DeviceById(devices, get_slave_keyboards(InitialDevices)[k].deviceid).attachment
                = VIRTUAL_CORE_KEYBOARD

\* The console waits for keyboards and accepts at least as many as it has
\* players to ask.
EnoughKeyboards ==
    fe = "cli" /\ pc = "kbd" /\ Cardinality(slave_keyboard_ids) >= Len(names)

\* The console accepts fewer keyboards than it has players to ask: its
\* detection never ends and no command is issued.
TooFewKeyboards ==
    [](Cardinality(slave_keyboard_ids) < Len(names) => pc = "kbd" /\ cmds = <<>>)

\* C29 as stated: with enough acceptable keyboards, each pressing Enter sooner
\* or later, the console's detection ends and the assignment runs; with too
\* few, detection never ends and no command is issued.
C29_DetectionProgress ==
    /\ EnoughKeyboards ~> pc = "assign"
    /\ TooFewKeyboards

\* C29, amended: with enough acceptable keyboards, each pressing Enter sooner
\* or later, the keyboard loop ends; the assignment runs next when mice are not
\* detected, and the first mouse prompt comes next when they are. With too few
\* keyboards, detection never ends and no command is issued.
C29_KeyboardLoopEnds ==
    /\ (EnoughKeyboards /\ ~detect_mice) ~> pc = "assign"
    /\ (EnoughKeyboards /\ detect_mice) ~> pc = "mouse"
    /\ TooFewKeyboards

\* Two players have claimed the two keyboards of the display and the
\* assignment is about to run.
C29_Witness ==
    /\ fe = "cli"
    /\ pc = "assign"
    /\ Len(names) = 2
    /\ ~detect_mice
    /\ Cardinality(slave_keyboard_ids) = 2
    /\ DictValues(player_keyboards) = slave_keyboard_ids

\* C30: whenever wait_for_enter_key_with_cancel or
\* wait_for_mouse_click_with_cancel has left (with a device, with None on
\* cancellation, or raising), no raw event is selected on the root window.
C30_SelectionClearedOnExit ==
    w_pc \in {"returned", "cancelled", "raised"} => w_mask = {}

====
